---- MODULE Spec2Model ----
(***************************************************************************)
(* A model of $hortHand (src/src/shorthand.js): the ShorthandArray         *)
(* collection over a small host document, one action per method call.      *)
(* The host document (attributes, inline style, class lists, child lists,  *)
(* listeners) is the state the methods act on.                             *)
(***************************************************************************)
EXTENDS Integers, Sequences, FiniteSets, TLC

VARIABLES
    dom,     \* the host document: node -> its record (tag, kids, attrs, ...)
    coll,    \* the ShorthandArray the caller currently holds
    call,    \* the method call made last, with its arguments
    ret,     \* what that call returned (or threw)
    used,    \* how many nodes the host has created so far
    hist,    \* per element: the hide()/show() applications seen since it was last idle
    chist,   \* the class-list calls made in a row on coll, and the class lists before them
    log,     \* the callbacks invoked during the call made last, in order
    regs,    \* per element: how many direct listeners on() has attached, by event and callback
    ons,     \* how many times on() has been called
    window   \* window.$H, and the loads of the script so far

vars == <<dom, coll, call, ret, used, hist, chist, log, regs, ons, window>>

---------------------------------------------------------------------------
(* Bounds *)

\* nodes the host may create (parsing, innerHTML, innerText)
MaxFresh == 3

\* members a derived ShorthandArray may hold
MaxColl == 4

\* calls of on()
MaxOnCalls == 2

\* loads of the script into one page
MaxLoads == 3

---------------------------------------------------------------------------
(* JavaScript values: a type tag, the string the value converts to, and    *)
(* the members when the value is a ShorthandArray                          *)

JsVal(t, s, c) == [t |-> t, s |-> s, c |-> c]
Str(s) == JsVal("string", s, <<>>)
Num(s) == JsVal("number", s, <<>>)
Bool(s) == JsVal("boolean", s, <<>>)
JsNull == JsVal("null", "null", <<>>)
JsUndef == JsVal("undefined", "undefined", <<>>)
Obj(s) == JsVal("object", s, <<>>)
Fn(s) == JsVal("function", s, <<>>)
Coll(c) == JsVal("ShorthandArray", "", c)
Thrown(s) == JsVal("throw", s, <<>>)

\* String(v), as setAttribute and setProperty convert their argument
JsToString(v) == v.s

\* v == '' (abstract equality: the other side is converted to a number when
\* it is a number or a boolean, and '' converts to 0)
LooseEqEmpty(v) ==
    \/ v.t = "string" /\ v.s = ""
    \/ v.t = "number" /\ v.s = "0"
    \/ v.t = "boolean" /\ v.s = "false"

\* v == null
LooseEqNull(v) == v.t \in {"null", "undefined"}

\* ToBoolean(v), as || and if use it
Truthy(v) ==
    /\ v.t \notin {"null", "undefined"}
    /\ ~(v.t = "string" /\ v.s = "")
    /\ ~(v.t = "number" /\ v.s \in {"0", "NaN"})
    /\ ~(v.t = "boolean" /\ v.s = "false")

---------------------------------------------------------------------------
(* The host document *)

DocNodes == {"doc", "html", "body", "btn", "lbl", "inp1", "inp2"}
FreshNodes == {"n" \o ToString(i) : i \in 1..MaxFresh}
Nodes == DocNodes \cup FreshNodes
FreshNode(i) == "n" \o ToString(i)

EmptyMap == [k \in {} |-> ""]
MapSet(m, k, v) == [x \in DOMAIN m \cup {k} |-> IF x = k THEN v ELSE m[x]]
MapDel(m, k) == [x \in DOMAIN m \ {k} |-> m[x]]

Range(s) == {s[i] : i \in 1..Len(s)}
Count(s, x) == Cardinality({i \in 1..Len(s) : s[i] = x})

NodeRec(tag, kids) ==
    [tag |-> tag, kids |-> kids, attrs |-> EmptyMap, style |-> EmptyMap,
     classes |-> {}, value |-> IF tag = "input" THEN Str("") ELSE JsUndef,
     text |-> "", listeners |-> <<>>]

\* <html><body><button><span/></button><input/><input/></body></html>
Document ==
    [n \in Nodes |->
        CASE n = "doc" -> NodeRec("#document", <<"html">>)
          [] n = "html" -> NodeRec("html", <<"body">>)
          [] n = "body" -> NodeRec("body", <<"btn", "inp1", "inp2">>)
          [] n = "btn" -> NodeRec("button", <<"lbl">>)
          [] n = "lbl" -> NodeRec("span", <<>>)
          [] n = "inp1" -> NodeRec("input", <<>>)
          [] n = "inp2" -> NodeRec("input", <<>>)
          [] OTHER -> NodeRec("", <<>>)]

IsElement(d, n) == d[n].tag \notin {"", "#text", "#document"}

\* elm.parentNode: a sequence holding the parent, empty for a node with none
ParentOf(d, n) ==
    LET ps == {p \in Nodes : n \in Range(d[p].kids)}
    IN IF ps = {} THEN <<>> ELSE <<CHOOSE p \in ps : TRUE>>

\* the nodes of the subtree of n, in document order
RECURSIVE Preorder(_, _)
RECURSIVE PreorderAll(_, _)
Preorder(d, n) == <<n>> \o PreorderAll(d, d[n].kids)
PreorderAll(d, s) ==
    IF s = <<>> THEN <<>> ELSE Preorder(d, Head(s)) \o PreorderAll(d, Tail(s))

\* n, its parent, its grandparent, ...
RECURSIVE AncestorsOrSelf(_, _)
AncestorsOrSelf(d, n) ==
    LET p == ParentOf(d, n)
    IN IF p = <<>> THEN <<n>> ELSE <<n>> \o AncestorsOrSelf(d, p[1])

\* elm.matches(query): the selectors used are a tag name or *
Matches(d, n, query) == IsElement(d, n) /\ (query = "*" \/ d[n].tag = query)

\* root.querySelectorAll(query): matching descendants in document order
QuerySelectorAll(d, root, query) ==
    LET m(n) == Matches(d, n, query)
    IN SelectSeq(PreorderAll(d, d[root].kids), m)

\* document.querySelectorAll(query)
DocumentQuerySelectorAll(d, query) ==
    LET m(n) == Matches(d, n, query)
    IN SelectSeq(Preorder(d, "doc"), m)

\* elm.closest(query): the nearest matching ancestor-or-self, or none
Closest(d, n, query) ==
    LET m(x) == Matches(d, x, query)
        hits == SelectSeq(AncestorsOrSelf(d, n), m)
    IN IF hits = <<>> THEN <<>> ELSE <<Head(hits)>>

\* attributes
HasAttribute(d, n, k) == k \in DOMAIN d[n].attrs
GetAttribute(d, n, k) == IF HasAttribute(d, n, k) THEN Str(d[n].attrs[k]) ELSE JsNull
SetAttribute(d, n, k, v) == [d EXCEPT ![n].attrs = MapSet(@, k, v)]
RemoveAttribute(d, n, k) == [d EXCEPT ![n].attrs = MapDel(@, k)]

\* inline style: the values the host accepts for a property
CssValid(k, v) ==
    CASE k = "display" -> v \in {"none", "block", "inline"}
      [] k = "color" -> v \in {"red", "green"}
      [] OTHER -> FALSE
GetPropertyValue(d, n, k) == IF k \in DOMAIN d[n].style THEN d[n].style[k] ELSE ""
SetProperty(d, n, k, v) ==
    IF v = "" THEN [d EXCEPT ![n].style = MapDel(@, k)]
    ELSE IF CssValid(k, v) THEN [d EXCEPT ![n].style = MapSet(@, k, v)]
    ELSE d

\* this.forEach(elm => ...): Op applied to the members in order
ForEach(Op(_, _), st, c) ==
    LET f[i \in 0..Len(c)] == IF i = 0 THEN st ELSE Op(f[i - 1], c[i])
    IN f[Len(c)]

---------------------------------------------------------------------------
(* show() and hide() *)

TempDisplay == "data-temp-display"

Idle == [run |-> "idle", orig |-> "", hides |-> 0]

\* one iteration of show()'s forEach
showElmKeep(d, elm) ==
    IF HasAttribute(d, elm, TempDisplay)
    THEN RemoveAttribute(
            SetProperty(d, elm, "display", d[elm].attrs[TempDisplay]), elm, TempDisplay)
    ELSE d
showElm(d, elm) ==
    LET a == GetAttribute(d, elm, TempDisplay)
    IN RemoveAttribute(
          SetProperty(d, elm, "display", IF Truthy(a) THEN a.s ELSE ""),
          elm, TempDisplay)

\* one iteration of hide()'s forEach
hideElmOverwrite(d, elm) ==
    SetProperty(
        SetAttribute(d, elm, TempDisplay, GetPropertyValue(d, elm, "display")),
        elm, "display", "none")
hideElm(d, elm) ==
    LET d1 == IF ~HasAttribute(d, elm, TempDisplay)
              THEN SetAttribute(d, elm, TempDisplay, GetPropertyValue(d, elm, "display"))
              ELSE d
    IN SetProperty(d1, elm, "display", "none")

\* the record of the applications: st = [d |-> document, h |-> hist]
histHide(st, elm) ==
    LET h == st.h[elm]
    IN CASE h.run = "hidden" -> [h EXCEPT !.hides = IF @ < 2 THEN @ + 1 ELSE @]
         [] h.run # "hidden" /\ ~HasAttribute(st.d, elm, TempDisplay) ->
               [run |-> "hidden", orig |-> GetPropertyValue(st.d, elm, "display"),
                hides |-> 1]
         [] OTHER -> Idle
histShow(st, elm) ==
    LET h == st.h[elm]
    IN CASE h.run = "hidden" -> [h EXCEPT !.run = "shown"]
         [] h.run # "hidden" /\ ~HasAttribute(st.d, elm, TempDisplay) ->
               [run |-> "bare", orig |-> GetPropertyValue(st.d, elm, "display"),
                hides |-> 0]
         [] OTHER -> Idle

hideStep(st, elm) == [d |-> hideElm(st.d, elm), h |-> [st.h EXCEPT ![elm] = histHide(st, elm)]]
showStep(st, elm) == [d |-> showElm(st.d, elm), h |-> [st.h EXCEPT ![elm] = histShow(st, elm)]]

\* no class-list calls in a row on the current collection
NoSeq == [stage |-> "none", x |-> "", y |-> "", before |-> [n \in DocNodes |-> {}]]

\* no listener attached yet
EventTypes == {"click", "keyup"}
Callbacks == {"f", "g"}
RegKeys == EventTypes \X Callbacks
NoRegs == [n \in DocNodes |-> [k \in RegKeys |-> 0]]

\* a call: the method, how many arguments it was given, and the arguments
Call(op, argc, key, val, nodes) ==
    [op |-> op, argc |-> argc, key |-> key, val |-> val, nodes |-> nodes]

Show ==
    LET st == ForEach(showStep, [d |-> dom, h |-> hist], coll)
    IN /\ dom' = st.d
       /\ hist' = st.h
       /\ call' = Call("show", 0, "", JsUndef, <<>>)
       /\ ret' = Coll(coll)
       /\ log' = <<>> /\ UNCHANGED <<window, regs, ons, coll, used, chist>>

Hide ==
    LET st == ForEach(hideStep, [d |-> dom, h |-> hist], coll)
    IN /\ dom' = st.d
       /\ hist' = st.h
       /\ call' = Call("hide", 0, "", JsUndef, <<>>)
       /\ ret' = Coll(coll)
       /\ log' = <<>> /\ UNCHANGED <<window, regs, ons, coll, used, chist>>

---------------------------------------------------------------------------
(* css() *)

\* css(key, value) with a string key: setProperty on every member
\* (the host takes null for the empty string here)
cssSetElm(d, elm, key, value) ==
    SetProperty(d, elm, key, IF value.t = "null" THEN "" ELSE JsToString(value))

cssSetStep(key, value, st, elm) ==
    [d |-> cssSetElm(st.d, elm, key, value),
     h |-> IF key = "display" THEN [st.h EXCEPT ![elm] = Idle] ELSE st.h]

\* css(key, value)
CssSet(key, value) ==
    LET step(st, elm) == cssSetStep(key, value, st, elm)
        st == ForEach(step, [d |-> dom, h |-> hist], coll)
    IN /\ dom' = st.d
       /\ hist' = st.h
       /\ call' = Call("css", 2, key, value, <<>>)
       /\ ret' = Coll(coll)
       /\ log' = <<>> /\ UNCHANGED <<window, regs, ons, coll, used, chist>>

\* css(key) with a string key
cssGet(d, c, key) ==
    IF c = <<>> THEN JsNull
    ELSE LET v == GetPropertyValue(d, c[1], key)
         IN IF v # "" THEN Str(v) ELSE JsNull

CssGet(key) ==
    /\ call' = Call("css", 1, key, JsUndef, <<>>)
    /\ ret' = cssGet(dom, coll, key)
    /\ log' = <<>> /\ UNCHANGED <<window, regs, ons, dom, coll, used, hist, chist>>

---------------------------------------------------------------------------
(* Loading the script *)

\* the function the k-th load of the script assigns to window.$H
LoadName(k) == "load" \o ToString(k)

\* if (window.$H) throw new Error(...); otherwise the body of the script
\* runs and assigns window.$H. h is window.$H before the k-th load
loadNoGuard(h, k) == [H |-> Fn(LoadName(k)), ret |-> JsUndef]
load(h, k) ==
    IF Truthy(h) THEN [H |-> h, ret |-> Thrown("Error")]
    ELSE [H |-> Fn(LoadName(k)), ret |-> JsUndef]

\* window.$H is a function this script assigned
IsShortHand(h) == h.t = "function" /\ h.s # "other"

\* the page after the script was loaded once, window.$H not set before
Loaded == [H |-> Fn(LoadName(1)), loads |-> 1, first |-> 1]

---------------------------------------------------------------------------
(* $H(selector) and the traversal methods *)

\* $H(query) for a string that does not start with <
Query(query) ==
    /\ IsShortHand(window.H)
    /\ coll' = DocumentQuerySelectorAll(dom, query)
    /\ call' = Call("$H", 1, query, JsUndef, <<>>)
    /\ ret' = Coll(coll')
    /\ log' = <<>> /\ UNCHANGED <<window, regs, ons, dom, used, hist>>
    /\ chist' = NoSeq

\* siblings(): per member, the element children of its parent other than it
siblingsOf(d, elm) ==
    LET other(x) == IsElement(d, x) /\ x # elm
    IN SelectSeq(d[ParentOf(d, elm)[1]].kids, other)

RECURSIVE siblings(_, _)
siblings(d, c) ==
    IF c = <<>> THEN <<>> ELSE siblingsOf(d, Head(c)) \o siblings(d, Tail(c))

\* elm.parentNode is null for a detached node: reading .children of it throws
siblingsResult(d, c) ==
    IF \A i \in 1..Len(c) : ParentOf(d, c[i]) # <<>>
    THEN Coll(siblings(d, c))
    ELSE Thrown("TypeError")

Siblings ==
    /\ siblingsResult(dom, coll).t = "throw" \/ Len(siblingsResult(dom, coll).c) <= MaxColl
    /\ call' = Call("siblings", 0, "", JsUndef, <<>>)
    /\ ret' = siblingsResult(dom, coll)
    /\ coll' = IF ret'.t = "throw" THEN coll ELSE ret'.c
    /\ log' = <<>> /\ UNCHANGED <<window, regs, ons, dom, used, hist>>
    /\ chist' = NoSeq

---------------------------------------------------------------------------
(* addClass(), removeClass(), toggleClass() *)

classListAdd(d, elm, className) == [d EXCEPT ![elm].classes = @ \cup {className}]
classListRemove(d, elm, className) == [d EXCEPT ![elm].classes = @ \ {className}]

\* for (const className of arguments) this.forEach(elm => elm.classList.add(className))
addClassFirstOnly(d, c, names) ==
    IF names = <<>> THEN d
    ELSE LET each(dd, elm) == classListAdd(dd, elm, names[1]) IN ForEach(each, d, c)
addClass(d, c, names) ==
    LET perName(dd, className) ==
            LET each(d2, elm) == classListAdd(d2, elm, className)
            IN ForEach(each, dd, c)
    IN ForEach(perName, d, names)

removeClass(d, c, names) ==
    LET perName(dd, className) ==
            LET each(d2, elm) == classListRemove(d2, elm, className)
            IN ForEach(each, dd, c)
    IN ForEach(perName, d, names)

\* toggleClass(className): each member by its own class list
toggleClassByFirst(d, c, className) ==
    IF c = <<>> THEN d
    ELSE LET has == className \in d[c[1]].classes
             each(dd, elm) == IF has THEN classListRemove(dd, elm, className)
                              ELSE classListAdd(dd, elm, className)
         IN ForEach(each, d, c)
toggleClass(d, c, className) ==
    LET each(dd, elm) ==
            IF className \in dd[elm].classes
            THEN classListRemove(dd, elm, className)
            ELSE classListAdd(dd, elm, className)
    IN ForEach(each, d, c)

Classes(d) == [n \in DocNodes |-> d[n].classes]

AddClass(names) ==
    /\ dom' = addClass(dom, coll, names)
    /\ call' = Call("addClass", Len(names), "", JsUndef, names)
    /\ ret' = Coll(coll)
    /\ chist' = IF Len(names) = 2 /\ names[1] # names[2]
                THEN [stage |-> "added", x |-> names[1], y |-> names[2],
                      before |-> Classes(dom)]
                ELSE NoSeq
    /\ log' = <<>> /\ UNCHANGED <<window, regs, ons, coll, used, hist>>

RemoveClass(names) ==
    /\ dom' = removeClass(dom, coll, names)
    /\ call' = Call("removeClass", Len(names), "", JsUndef, names)
    /\ ret' = Coll(coll)
    /\ chist' = IF chist.stage = "added" /\ names = <<chist.x>>
                THEN [chist EXCEPT !.stage = "removed"]
                ELSE NoSeq
    /\ log' = <<>> /\ UNCHANGED <<window, regs, ons, coll, used, hist>>

\* toggleClass(className)
ToggleClass(className) ==
    /\ dom' = toggleClass(dom, coll, className)
    /\ call' = Call("toggleClass", 1, className, JsUndef, <<>>)
    /\ ret' = Coll(coll)
    /\ chist' = IF chist.stage = "toggled" /\ chist.x = className
                THEN [chist EXCEPT !.stage = "toggledTwice"]
                ELSE [stage |-> "toggled", x |-> className, y |-> "",
                      before |-> Classes(dom)]
    /\ log' = <<>> /\ UNCHANGED <<window, regs, ons, coll, used, hist>>

\* toggleClass(className, state): the branch for two arguments tests
\* arguments.length == 1 again, so nothing is done
ToggleClassState(className, state) ==
    /\ call' = Call("toggleClass", 2, className, state, <<>>)
    /\ ret' = Coll(coll)
    /\ chist' = NoSeq
    /\ log' = <<>> /\ UNCHANGED <<window, regs, ons, dom, coll, used, hist>>

---------------------------------------------------------------------------
(* The host's markup parser and serialiser *)

\* what the host's parser makes of a markup string: its top-level nodes, each
\* a tag and the text inside it (a text node for text outside any tag)
ParseMarkup(content) ==
    CASE content = "" -> <<>>
      [] content = "<i>" -> <<[tag |-> "i", text |-> ""]>>
      [] content = "<i></i>" -> <<[tag |-> "i", text |-> ""]>>
      [] content = "<i></i><b></b>" -> <<[tag |-> "i", text |-> ""], [tag |-> "b", text |-> ""]>>
      [] content = "<span>a</span>" -> <<[tag |-> "span", text |-> "a"]>>
      [] OTHER -> <<[tag |-> "#text", text |-> content]>>

NodesFor(tpl) == IF tpl.tag # "#text" /\ tpl.text # "" THEN 2 ELSE 1

RECURSIVE NodesNeeded(_)
NodesNeeded(tpls) ==
    IF tpls = <<>> THEN 0 ELSE NodesFor(Head(tpls)) + NodesNeeded(Tail(tpls))

\* the host creates the nodes of tpls: st = [d, used, top], top collecting
\* the top-level nodes created
createNode(st, tpl) ==
    LET n == FreshNode(st.used + 1)
        t == FreshNode(st.used + 2)
    IN IF tpl.tag = "#text"
       THEN [d |-> [st.d EXCEPT ![n] = [NodeRec("#text", <<>>) EXCEPT !.text = tpl.text]],
             used |-> st.used + 1, top |-> Append(st.top, n)]
       ELSE IF tpl.text = ""
       THEN [d |-> [st.d EXCEPT ![n] = NodeRec(tpl.tag, <<>>)],
             used |-> st.used + 1, top |-> Append(st.top, n)]
       ELSE [d |-> [st.d EXCEPT ![n] = NodeRec(tpl.tag, <<t>>),
                                ![t] = [NodeRec("#text", <<>>) EXCEPT !.text = tpl.text]],
             used |-> st.used + 2, top |-> Append(st.top, n)]

CreateNodes(d, u, tpls) == ForEach(createNode, [d |-> d, used |-> u, top |-> <<>>], tpls)

\* the serialiser's escaping of text
EscapeText(t) == CASE t = "a<b" -> "a&lt;b" [] OTHER -> t

RECURSIVE Concat(_)
Concat(strs) == IF strs = <<>> THEN "" ELSE Head(strs) \o Concat(Tail(strs))

\* attributes, class and style are written in the order of these lists
AttrOrder == <<"src", "value", "data-temp-display">>
ClassOrder == <<"a", "b", "c">>
StyleOrder == <<"display", "color">>

AttrsText(d, n) ==
    LET one(k) == " " \o k \o "=\"" \o d[n].attrs[k] \o "\""
        cls == SelectSeq(ClassOrder, LAMBDA k : k \in d[n].classes)
        sty == SelectSeq(StyleOrder, LAMBDA k : k \in DOMAIN d[n].style)
        present == SelectSeq(AttrOrder, LAMBDA k : k \in DOMAIN d[n].attrs)
    IN (IF cls = <<>> THEN ""
        ELSE " class=\"" \o Concat([i \in 1..Len(cls) |->
                                       (IF i = 1 THEN "" ELSE " ") \o cls[i]]) \o "\"")
       \o (IF sty = <<>> THEN ""
           ELSE " style=\"" \o Concat([i \in 1..Len(sty) |->
                                          (IF i = 1 THEN "" ELSE " ")
                                          \o sty[i] \o ": " \o d[n].style[sty[i]] \o ";"]) \o "\"")
       \o Concat([i \in 1..Len(present) |-> one(present[i])])

VoidTags == {"input"}

\* elm.outerHTML and elm.innerHTML
RECURSIVE OuterHTML(_, _)
RECURSIVE InnerHTMLOf(_, _)
OuterHTML(d, n) ==
    IF d[n].tag = "#text" THEN EscapeText(d[n].text)
    ELSE IF d[n].tag \in VoidTags THEN "<" \o d[n].tag \o AttrsText(d, n) \o ">"
    ELSE "<" \o d[n].tag \o AttrsText(d, n) \o ">"
         \o InnerHTMLOf(d, d[n].kids) \o "</" \o d[n].tag \o ">"
InnerHTMLOf(d, kids) ==
    IF kids = <<>> THEN "" ELSE OuterHTML(d, Head(kids)) \o InnerHTMLOf(d, Tail(kids))
InnerHTML(d, n) == InnerHTMLOf(d, d[n].kids)

\* elm.innerText, read: the text of the descendants in document order
InnerText(d, n) ==
    LET sub == PreorderAll(d, d[n].kids)
    IN Concat([i \in 1..Len(sub) |-> d[sub[i]].text])

\* elm.innerHTML = content and elm.innerText = content: st = [d, used]
setInnerHTML(st, elm, content) ==
    LET made == CreateNodes(st.d, st.used, ParseMarkup(content))
    IN [d |-> [made.d EXCEPT ![elm].kids = made.top], used |-> made.used]
setInnerText(st, elm, content) ==
    LET made == CreateNodes(st.d, st.used,
                    IF content = "" THEN <<>> ELSE <<[tag |-> "#text", text |-> content]>>)
    IN [d |-> [made.d EXCEPT ![elm].kids = made.top], used |-> made.used]

\* the string a DOMString setter that takes null for '' is given
NullToEmpty(v) == IF v.t = "null" THEN "" ELSE JsToString(v)

---------------------------------------------------------------------------
(* html() and text() *)

\* this.map(elm => elm.innerHTML).join('')
htmlGet(d, c) == Str(Concat([i \in 1..Len(c) |-> InnerHTML(d, c[i])]))
textGet(d, c) == Str(Concat([i \in 1..Len(c) |-> InnerText(d, c[i])]))

htmlSet(d, u, c, content) ==
    LET each(st, elm) == setInnerHTML(st, elm, NullToEmpty(content))
    IN ForEach(each, [d |-> d, used |-> u], c)
textSet(d, u, c, content) ==
    LET each(st, elm) == setInnerText(st, elm, NullToEmpty(content))
    IN ForEach(each, [d |-> d, used |-> u], c)

\* html()
HtmlGet ==
    /\ call' = Call("html", 0, "", JsUndef, <<>>)
    /\ ret' = htmlGet(dom, coll)
    /\ chist' = NoSeq
    /\ log' = <<>> /\ UNCHANGED <<window, regs, ons, dom, coll, used, hist>>

\* html(content)
HtmlSet(content) ==
    /\ used + Len(coll) * NodesNeeded(ParseMarkup(NullToEmpty(content))) <= MaxFresh
    /\ LET st == htmlSet(dom, used, coll, content)
       IN dom' = st.d /\ used' = st.used
    /\ call' = Call("html", 1, "", content, <<>>)
    /\ ret' = Coll(coll)
    /\ chist' = NoSeq
    /\ log' = <<>> /\ UNCHANGED <<window, regs, ons, coll, hist>>

\* text()
TextGet ==
    /\ call' = Call("text", 0, "", JsUndef, <<>>)
    /\ ret' = textGet(dom, coll)
    /\ chist' = NoSeq
    /\ log' = <<>> /\ UNCHANGED <<window, regs, ons, dom, coll, used, hist>>

\* text(content)
TextSet(content) ==
    /\ used + Len(coll) * (IF NullToEmpty(content) = "" THEN 0 ELSE 1) <= MaxFresh
    /\ LET st == textSet(dom, used, coll, content)
       IN dom' = st.d /\ used' = st.used
    /\ call' = Call("text", 1, "", content, <<>>)
    /\ ret' = Coll(coll)
    /\ chist' = NoSeq
    /\ log' = <<>> /\ UNCHANGED <<window, regs, ons, coll, hist>>

---------------------------------------------------------------------------
(* attr() and val() *)

\* attr(key): the loop returns at its first member; with no member the
\* method runs on to its last line, return this
attrGet(d, c, key) == IF c # <<>> THEN GetAttribute(d, c[1], key) ELSE Coll(c)

\* attr(key, value)
attrSetStrict(d, c, key, value) ==
    LET each(dd, elm) ==
            IF (value.t = "string" /\ value.s = "") \/ LooseEqNull(value)
            THEN RemoveAttribute(dd, elm, key)
            ELSE SetAttribute(dd, elm, key, JsToString(value))
    IN ForEach(each, d, c)
attrSet(d, c, key, value) ==
    LET each(dd, elm) ==
            IF LooseEqEmpty(value) \/ LooseEqNull(value)
            THEN RemoveAttribute(dd, elm, key)
            ELSE SetAttribute(dd, elm, key, JsToString(value))
    IN ForEach(each, d, c)

histAttr(h, c, key) ==
    IF key = TempDisplay THEN [n \in Nodes |-> IF n \in Range(c) THEN Idle ELSE h[n]] ELSE h

AttrGet(key) ==
    /\ call' = Call("attr", 1, key, JsUndef, <<>>)
    /\ ret' = attrGet(dom, coll, key)
    /\ chist' = NoSeq
    /\ log' = <<>> /\ UNCHANGED <<window, regs, ons, dom, coll, used, hist>>

AttrSet(key, value) ==
    /\ dom' = attrSet(dom, coll, key, value)
    /\ call' = Call("attr", 2, key, value, <<>>)
    /\ ret' = Coll(coll)
    /\ hist' = histAttr(hist, coll, key)
    /\ chist' = NoSeq
    /\ log' = <<>> /\ UNCHANGED <<window, regs, ons, coll, used>>

\* elm.value: an input keeps a string (null is taken for ''), a button
\* reflects its value attribute, any other element keeps what it is given
GetValue(d, elm) ==
    IF d[elm].tag = "button"
    THEN (IF HasAttribute(d, elm, "value") THEN Str(d[elm].attrs["value"]) ELSE Str(""))
    ELSE d[elm].value
SetValue(d, elm, v) ==
    CASE d[elm].tag = "input" -> [d EXCEPT ![elm].value = Str(NullToEmpty(v))]
      [] d[elm].tag = "button" -> SetAttribute(d, elm, "value", JsToString(v))
      [] OTHER -> [d EXCEPT ![elm].value = v]

\* val(): as attr(key)
valGet(d, c) == IF c # <<>> THEN GetValue(d, c[1]) ELSE Coll(c)

\* val(content)
valSet(d, c, content) ==
    LET each(dd, elm) == SetValue(dd, elm, content) IN ForEach(each, d, c)

ValGet ==
    /\ call' = Call("val", 0, "", JsUndef, <<>>)
    /\ ret' = valGet(dom, coll)
    /\ chist' = NoSeq
    /\ log' = <<>> /\ UNCHANGED <<window, regs, ons, dom, coll, used, hist>>

ValSet(content) ==
    /\ dom' = valSet(dom, coll, content)
    /\ call' = Call("val", 1, "", content, <<>>)
    /\ ret' = Coll(coll)
    /\ chist' = NoSeq
    /\ log' = <<>> /\ UNCHANGED <<window, regs, ons, coll, used, hist>>

---------------------------------------------------------------------------
(* style() and the geometry methods *)

\* getComputedStyle(elm)[cssKey]: the inline value as the host resolves it,
\* or the host's default for the element
ComputedStyle(d, elm, cssKey) ==
    LET v == GetPropertyValue(d, elm, cssKey)
    IN CASE cssKey = "color" ->
               Str(CASE v = "red" -> "rgb(255, 0, 0)" [] v = "green" -> "rgb(0, 128, 0)"
                     [] OTHER -> "rgb(0, 0, 0)")
         [] cssKey = "display" ->
               Str(IF v # "" THEN v
                   ELSE IF d[elm].tag \in {"input", "button"} THEN "inline-block"
                   ELSE IF d[elm].tag \in {"html", "body"} THEN "block" ELSE "inline")
         [] cssKey = "width" ->
               Str(IF d[elm].tag = "input" /\ GetPropertyValue(d, elm, "display") # "none"
                   THEN "153px" ELSE "auto")
         [] cssKey = "height" ->
               Str(IF d[elm].tag = "input" /\ GetPropertyValue(d, elm, "display") # "none"
                   THEN "21px" ELSE "auto")
         [] OTHER -> JsUndef

\* parseFloat(str.replace('px', ''))
ParseFloatPx(str) ==
    CASE str = "153px" -> Num("153") [] str = "21px" -> Num("21") [] OTHER -> Num("NaN")

styleGet(d, c, cssKey) == IF c # <<>> THEN ComputedStyle(d, c[1], cssKey) ELSE JsNull
width(d, c) == IF c # <<>> THEN ParseFloatPx(ComputedStyle(d, c[1], "width").s) ELSE JsNull
height(d, c) == IF c # <<>> THEN ParseFloatPx(ComputedStyle(d, c[1], "height").s) ELSE JsNull
\* {top, left} of the first member: an object
offset(d, c) == IF c # <<>> THEN Obj("{top, left} of " \o c[1]) ELSE JsNull
position(d, c) == IF c # <<>> THEN Obj("{top, left} of " \o c[1]) ELSE JsNull

Style(cssKey) ==
    /\ call' = Call("style", 1, cssKey, JsUndef, <<>>)
    /\ ret' = styleGet(dom, coll, cssKey)
    /\ chist' = NoSeq
    /\ log' = <<>> /\ UNCHANGED <<window, regs, ons, dom, coll, used, hist>>

\* width(), height(), offset(), position()
Geometry ==
    /\ \E op \in {"width", "height", "offset", "position"} :
          /\ call' = Call(op, 0, "", JsUndef, <<>>)
          /\ ret' = CASE op = "width" -> width(dom, coll)
                      [] op = "height" -> height(dom, coll)
                      [] op = "offset" -> offset(dom, coll)
                      [] op = "position" -> position(dom, coll)
    /\ chist' = NoSeq
    /\ log' = <<>> /\ UNCHANGED <<window, regs, ons, dom, coll, used, hist>>

\* css({key: value, ...}): props lists the keys and values in turn
cssMap(d, c, props) ==
    LET perKey(dd, i) ==
            LET each(d2, elm) == SetProperty(d2, elm, props[2 * i - 1], props[2 * i])
            IN ForEach(each, dd, c)
    IN ForEach(perKey, d, [i \in 1..(Len(props) \div 2) |-> i])

CssMap(props) ==
    /\ dom' = cssMap(dom, coll, props)
    /\ call' = Call("css", 1, "", JsVal("object", "", props), <<>>)
    /\ ret' = Coll(coll)
    /\ hist' = [n \in Nodes |->
                  IF n \in Range(coll) /\ \E i \in 1..(Len(props) \div 2) :
                        props[2 * i - 1] = "display"
                  THEN Idle ELSE hist[n]]
    /\ chist' = NoSeq
    /\ log' = <<>> /\ UNCHANGED <<window, regs, ons, coll, used>>

\* first()
First ==
    /\ coll' = IF Len(coll) > 0 THEN <<coll[1]>> ELSE <<>>
    /\ call' = Call("first", 0, "", JsUndef, <<>>)
    /\ ret' = Coll(coll')
    /\ chist' = NoSeq
    /\ log' = <<>> /\ UNCHANGED <<window, regs, ons, dom, used, hist>>

---------------------------------------------------------------------------
(* on() and the host's event dispatch *)

\* elm.addEventListener(eventName, (e) => {...}): the listener is a new
\* function per call, so the host never takes it for one it already has
onElmOnce(d, elm, eventName, eventTarget, eventCallback) ==
    LET l == [type |-> eventName, target |-> eventTarget, cb |-> eventCallback]
    IN IF l \in Range(d[elm].listeners) THEN d
       ELSE [d EXCEPT ![elm].listeners = Append(@, l)]
onElm(d, elm, eventName, eventTarget, eventCallback) ==
    [d EXCEPT ![elm].listeners =
        Append(@, [type |-> eventName, target |-> eventTarget, cb |-> eventCallback])]

\* on(eventName, callback) and on(eventName, targetSelector, callback);
\* eventTarget is "" where the code has null
On(argc, eventName, eventTarget, eventCallback) ==
    /\ argc \in {2, 3}
    /\ argc = 2 => eventTarget = ""
    /\ ons < MaxOnCalls
    /\ ons' = ons + 1
    /\ LET each(d, elm) == onElm(d, elm, eventName, eventTarget, eventCallback)
       IN dom' = ForEach(each, dom, coll)
    /\ regs' = [n \in DocNodes |->
                  [k \in RegKeys |->
                      IF eventTarget = "" /\ k = <<eventName, eventCallback>>
                      THEN regs[n][k] + Count(coll, n) ELSE regs[n][k]]]
    /\ call' = Call("on", argc, eventName, Fn(eventCallback),
                    IF argc = 3 THEN <<eventTarget>> ELSE <<>>)
    /\ ret' = Coll(coll)
    /\ chist' = NoSeq
    /\ log' = <<>>
    /\ UNCHANGED <<coll, used, hist, window>>

\* the listener function of on() attached i-th to elm, run by the host for
\* an event whose target is tgt: what it passes to the callback, or nothing
listenerRun(d, elm, i, tgt) ==
    LET l == d[elm].listeners[i]
    IN IF l.target # ""
       THEN (IF Closest(d, tgt, l.target) # <<>>
             THEN <<[at |-> elm, idx |-> i, sel |-> l.target, cb |-> l.cb,
                     arg |-> <<Closest(d, tgt, l.target)[1]>>]>>
             ELSE <<>>)
       ELSE <<[at |-> elm, idx |-> i, sel |-> "", cb |-> l.cb, arg |-> <<elm>>]>>

\* the host runs, for each node from the target up to the document, the
\* node's listeners for the event in the order they were attached
dispatch(d, type, tgt) ==
    LET path == AncestorsOrSelf(d, tgt)
        atNode(acc, elm) ==
            LET ls == d[elm].listeners
                one(a, i) == IF ls[i].type = type THEN a \o listenerRun(d, elm, i, tgt)
                             ELSE a
            IN ForEach(one, acc, [i \in 1..Len(ls) |-> i])
    IN ForEach(atNode, <<>>, path)

\* the host fires an event of the given type at tgt
Fire(type, tgt) ==
    /\ log' = dispatch(dom, type, tgt)
    /\ call' = Call("fire", 0, type, JsUndef, <<tgt>>)
    /\ ret' = JsUndef
    /\ chist' = NoSeq
    /\ UNCHANGED <<dom, coll, used, hist, regs, ons, window>>

---------------------------------------------------------------------------
(* remove() *)

\* elm.parentNode.removeChild(elm); parentNode is null for a detached node,
\* and the call throws there: st = [d, err]
removeElm(st, elm) ==
    IF st.err THEN st
    ELSE IF ParentOf(st.d, elm) = <<>> THEN [st EXCEPT !.err = TRUE]
    ELSE LET p == ParentOf(st.d, elm)[1]
         IN [st EXCEPT !.d[p].kids = SelectSeq(@, LAMBDA x : x # elm)]

Remove ==
    /\ LET st == ForEach(removeElm, [d |-> dom, err |-> FALSE], coll)
       IN /\ dom' = st.d
          /\ ret' = IF st.err THEN Thrown("TypeError") ELSE Coll(coll)
    /\ call' = Call("remove", 0, "", JsUndef, <<>>)
    /\ chist' = NoSeq
    /\ log' = <<>>
    /\ UNCHANGED <<coll, used, hist, regs, ons, window>>

---------------------------------------------------------------------------
(* append() and prepend() *)

NodeRef(n) == JsVal("node", n, <<>>)

\* parseHTML(content): the nodes the host parses out of content, as a
\* ShorthandArray: st = [d, used, top]
parseHTML(d, u, content) == CreateNodes(d, u, ParseMarkup(content))

\* for (const elm of arguments): a string is parsed, a ShorthandArray is
\* spread, anything else is pushed as it is: st = [d, used, top]
flattenItem(st, item) ==
    CASE item.t = "string" ->
            LET made == parseHTML(st.d, st.used, item.s)
            IN [d |-> made.d, used |-> made.used, top |-> st.top \o made.top]
      [] item.t = "ShorthandArray" -> [st EXCEPT !.top = @ \o item.c]
      [] OTHER -> [st EXCEPT !.top = Append(@, item.s)]

flatten(d, u, items) == ForEach(flattenItem, [d |-> d, used |-> u, top |-> <<>>], items)

RECURSIVE ItemNodesNeeded(_)
ItemNodesNeeded(items) ==
    IF items = <<>> THEN 0
    ELSE (IF Head(items).t = "string" THEN NodesNeeded(ParseMarkup(Head(items).s)) ELSE 0)
         + ItemNodesNeeded(Tail(items))

Detach(d, child) ==
    [n \in DOMAIN d |->
        IF child \in Range(d[n].kids)
        THEN [d[n] EXCEPT !.kids = SelectSeq(@, LAMBDA x : x # child)]
        ELSE d[n]]

\* parent.appendChild(child): the host refuses a child that contains the
\* parent, and moves a child that has a parent already: st = [d, err]
appendChild(st, parent, child) ==
    IF st.err THEN st
    ELSE IF child \in Range(AncestorsOrSelf(st.d, parent)) THEN [st EXCEPT !.err = TRUE]
    ELSE [st EXCEPT !.d = [Detach(st.d, child) EXCEPT ![parent].kids = Append(@, child)]]

\* parent.insertBefore(child, parent.firstChild)
insertBeforeFirst(st, parent, child) ==
    IF st.err THEN st
    ELSE IF child \in Range(AncestorsOrSelf(st.d, parent)) THEN [st EXCEPT !.err = TRUE]
    ELSE [st EXCEPT !.d = [Detach(st.d, child) EXCEPT ![parent].kids = <<child>> \o @]]

\* toAppend.forEach(appendElm => this.forEach(elm => elm.appendChild(appendElm)))
appendAll(d, c, toAppend) ==
    LET perItem(st, appendElm) ==
            LET each(s2, elm) == appendChild(s2, elm, appendElm)
            IN ForEach(each, st, c)
    IN ForEach(perItem, [d |-> d, err |-> FALSE], toAppend)

\* toPrepend.forEach(prependElm => this.forEach(elm => elm.insertBefore(prependElm, elm.firstChild)))
prependAll(d, c, toPrepend) ==
    LET perItem(st, prependElm) ==
            LET each(s2, elm) == insertBeforeFirst(s2, elm, prependElm)
            IN ForEach(each, st, c)
    IN ForEach(perItem, [d |-> d, err |-> FALSE], toPrepend)

\* append(...items); call.nodes keeps the list toAppend
Append_(items) ==
    /\ used + ItemNodesNeeded(items) <= MaxFresh
    /\ LET flat == flatten(dom, used, items)
           st == appendAll(flat.d, coll, flat.top)
       IN /\ dom' = st.d
          /\ used' = flat.used
          /\ call' = Call("append", Len(items), "", JsUndef, flat.top)
          /\ ret' = IF st.err THEN Thrown("HierarchyRequestError") ELSE Coll(coll)
    /\ chist' = NoSeq
    /\ log' = <<>>
    /\ UNCHANGED <<coll, hist, regs, ons, window>>

\* prepend(...items); call.nodes keeps the list toPrepend
Prepend(items) ==
    /\ used + ItemNodesNeeded(items) <= MaxFresh
    /\ LET flat == flatten(dom, used, items)
           st == prependAll(flat.d, coll, flat.top)
       IN /\ dom' = st.d
          /\ used' = flat.used
          /\ call' = Call("prepend", Len(items), "", JsUndef, flat.top)
          /\ ret' = IF st.err THEN Thrown("HierarchyRequestError") ELSE Coll(coll)
    /\ chist' = NoSeq
    /\ log' = <<>>
    /\ UNCHANGED <<coll, hist, regs, ons, window>>

---------------------------------------------------------------------------
(* The initial states *)

DisplayValues == {"", "none", "block"}

\* elements that carry an inline display value from the page's markup
Styled == {"btn", "inp1"}

InitCommon ==
    /\ coll = <<>>
    /\ call = Call("load", 0, "", JsUndef, <<>>)
    /\ ret = JsUndef
    /\ used = 0
    /\ hist = [n \in Nodes |-> Idle]
    /\ chist = NoSeq
    /\ log = <<>>
    /\ regs = NoRegs
    /\ ons = 0
    /\ window = Loaded

InitVis ==
    /\ InitCommon
    /\ \E disp \in [Styled -> DisplayValues] :
          dom = [n \in Nodes |->
                    IF n \in Styled /\ disp[n] # ""
                    THEN [Document[n] EXCEPT !.style = MapSet(@, "display", disp[n])]
                    ELSE Document[n]]

VisSelectors == {"button", "input", "em"}
VisDisplayArgs == {Str(""), Str("block"), Str("bogus")}

NextVis ==
    \/ \E q \in VisSelectors : Query(q)
    \/ Siblings
    \/ Hide
    \/ Show
    \/ \E v \in VisDisplayArgs : CssSet("display", v)
    \/ CssGet("display")

SpecVis == InitVis /\ [][NextVis]_vars

ClassNames == {"a", "b", "c"}

\* elements that carry classes from the page's markup
Classed == {"btn", "inp1", "inp2"}

InitCls ==
    /\ InitCommon
    /\ \E cls \in [Classed -> SUBSET ClassNames] :
          dom = [n \in Nodes |->
                    IF n \in Classed THEN [Document[n] EXCEPT !.classes = cls[n]]
                    ELSE Document[n]]

ClsSelectors == {"button", "input", "em"}
ClassArgs == {<<x>> : x \in ClassNames} \cup {<<x, y>> : x \in ClassNames, y \in ClassNames}

NextCls ==
    \/ \E q \in ClsSelectors : Query(q)
    \/ Siblings
    \/ \E names \in ClassArgs : AddClass(names)
    \/ \E names \in ClassArgs : RemoveClass(names)
    \/ \E x \in ClassNames : ToggleClass(x)
    \/ \E x \in ClassNames : \E b \in {Bool("true"), Bool("false")} : ToggleClassState(x, b)

AccSelectors == {"input", "em"}
AttrKeys == {"src"}
AttrArgs == {Str("a"), Str(""), JsNull, JsUndef, Num("0")}
ValArgs == {Str("a"), JsNull}
ColorArgs == {Str("red"), Str("")}
HtmlArgs == {Str("<i>")}
TextArgs == {Str("a<b")}

InitAcc ==
    /\ InitCommon
    /\ dom = Document

NextAcc ==
    \/ \E q \in AccSelectors : Query(q)
    \/ First
    \/ HtmlGet
    \/ \E v \in HtmlArgs : HtmlSet(v)
    \/ TextGet
    \/ \E v \in TextArgs : TextSet(v)
    \/ \E k \in AttrKeys : AttrGet(k)
    \/ \E k \in AttrKeys : \E v \in AttrArgs : AttrSet(k, v)
    \/ ValGet
    \/ \E v \in ValArgs : ValSet(v)
    \/ CssGet("color")
    \/ \E v \in ColorArgs : CssSet("color", v)
    \/ CssMap(<<"color", "red">>)
    \/ Style("color")
    \/ Geometry

SpecAcc == InitAcc /\ [][NextAcc]_vars

InitEvt ==
    /\ InitCommon
    /\ dom = Document

EvtSelectors == {"body", "button"}
Firings == {<<"click", "lbl">>, <<"click", "btn">>, <<"click", "inp1">>, <<"keyup", "lbl">>}

NextEvt ==
    \/ \E q \in EvtSelectors : Query(q)
    \/ Siblings
    \/ On(2, "click", "", "f")
    \/ \E sel \in EvtSelectors : On(3, "click", sel, "g")
    \/ \E e \in Firings : Fire(e[1], e[2])
    \/ Remove

SpecEvt == InitEvt /\ [][NextEvt]_vars

InitTree ==
    /\ InitCommon
    /\ dom = Document

TreeSelectors == {"body", "button", "span"}
ItemLists ==
    { <<Str("<i></i><b></b>")>>,
      <<Str("<span>a</span>")>>,
      <<NodeRef("inp1"), NodeRef("inp2")>>,
      <<Coll(<<"inp1", "inp2">>)>>,
      <<NodeRef("lbl"), Str("x")>> }

NextTree ==
    \/ \E q \in TreeSelectors : Query(q)
    \/ \E items \in ItemLists : Append_(items)
    \/ \E items \in ItemLists : Prepend(items)
    \/ TextGet

SpecTree == InitTree /\ [][NextTree]_vars

\* no element occurs twice in s
Distinct(s) == \A i, j \in 1..Len(s) : s[i] = s[j] => i = j

\* C10: append / prepend on a collection with one target inserts the whole
\* flattened item list in its order: after append the target's children are
\* its previous children followed by the list, after prepend the list
\* followed by its previous children (for a list of distinct nodes none of
\* which was a child of the target).
C10_InsertsListInOrder ==
    [][(/\ call'.op \in {"append", "prepend"}
        /\ Len(coll) = 1
        /\ ret'.t # "throw"
        /\ Distinct(call'.nodes)
        /\ Range(call'.nodes) \cap Range(dom[coll[1]].kids) = {})
       => dom'[coll[1]].kids =
             IF call'.op = "append" THEN dom[coll[1]].kids \o call'.nodes
             ELSE call'.nodes \o dom[coll[1]].kids]_vars

\* the nodes from the target of the event fired last up to the document
FiredPath == AncestorsOrSelf(dom, call.nodes[1])

\* C6: when an event reaches a container with a delegated listener
\* on(event, selector, cb), cb is invoked (once, with a one-element collection
\* of the matching element) exactly when the target is, or lies inside, an
\* element that matches selector and is inside the container.
C6_DelegatedFiresInsideOnly ==
    call.op = "fire" =>
        \A c \in Range(FiredPath) : \A i \in 1..Len(dom[c].listeners) :
            LET l == dom[c].listeners[i]
                inside == {m \in Range(FiredPath) :
                              /\ Matches(dom, m, l.target)
                              /\ c \in Range(AncestorsOrSelf(dom, m))}
                calls == SelectSeq(log, LAMBDA e : e.at = c /\ e.idx = i)
            IN l.target # "" /\ l.type = call.key =>
                  IF inside = {} THEN calls = <<>>
                  ELSE Len(calls) = 1 /\ \E m \in inside : calls[1].arg = <<m>>

\* C7: every firing of an event that reaches an element invokes a callback
\* once per direct listener on(event, cb) has attached to the element for it
\* (one per handle of the element in the collection on() was called on),
\* whatever calls were made since: listeners are not deduplicated or removed.
C7_ListenersStack ==
    call.op = "fire" =>
        \A h \in Range(FiredPath) : \A cb \in Callbacks :
            Len(SelectSeq(log, LAMBDA e : e.at = h /\ e.sel = "" /\ e.cb = cb))
                = regs[h][<<call.key, cb>>]

\* an element with two listeners of the same callback, removed from the
\* document and then clicked
C7_Witness ==
    /\ call.op = "fire"
    /\ regs[call.nodes[1]][<<call.key, "f">>] >= 2
    /\ ParentOf(dom, call.nodes[1]) = <<>>
    /\ Len(log) >= 2

\* the call made last read a value (query mode)
IsQuery ==
    \/ call.op \in {"html", "text", "val"} /\ call.argc = 0
    \/ call.op = "attr" /\ call.argc = 1
    \/ call.op = "css" /\ call.argc = 1 /\ call.val.t # "object"
    \/ call.op \in {"style", "width", "height", "offset", "position"}

\* the call made last wrote a value (mutate mode) through a get-or-set method
IsMutate ==
    \/ call.op \in {"html", "text", "val"} /\ call.argc = 1
    \/ call.op = "attr" /\ call.argc = 2
    \/ call.op = "css" /\ (call.argc = 2 \/ call.val.t = "object")

\* C3: after attr(key, value) no member has attribute key when value is the
\* empty string, null or undefined, and otherwise every member has attribute
\* key set to value.
C3_AttrSetsOrRemoves ==
    call.op = "attr" /\ call.argc = 2 =>
        IF (call.val.t = "string" /\ call.val.s = "") \/ call.val.t \in {"null", "undefined"}
        THEN \A n \in Range(coll) : ~HasAttribute(dom, n, call.key)
        ELSE \A n \in Range(coll) :
                GetAttribute(dom, n, call.key) = Str(JsToString(call.val))

\* C4: a query-mode accessor called on a collection with no member returns
\* null, undefined or the empty string (never the collection itself).
C4_EmptyQueriesNullLike ==
    coll = <<>> /\ IsQuery => ret \in {JsNull, JsUndef, Str("")}

\* what the get-or-set method named by the last call reads from element n
ReadOf(n) ==
    CASE call.op = "html" -> Str(InnerHTML(dom, n))
      [] call.op = "text" -> Str(InnerText(dom, n))
      [] call.op = "attr" -> GetAttribute(dom, n, call.key)
      [] call.op = "val" -> GetValue(dom, n)
      [] call.op = "css" /\ call.val.t = "object" -> JsVal("object", "", <<>>)
      [] call.op = "css" ->
            IF GetPropertyValue(dom, n, call.key) = "" THEN JsNull
            ELSE Str(GetPropertyValue(dom, n, call.key))

\* C5: html, text, attr, val and css called without a value on two or more
\* members return what the first member holds; called with a value they
\* write every member alike and return the collection itself.
C5_FirstHandleOrAll ==
    /\ IsQuery /\ call.op \in {"html", "text", "attr", "val", "css"} /\ Len(coll) >= 2 =>
          ret = ReadOf(coll[1])
    /\ IsMutate =>
          /\ ret = Coll(coll)
          /\ \A n \in Range(coll) : ReadOf(n) = ReadOf(coll[1])

SpecCls == InitCls /\ [][NextCls]_vars

\* C8: after addClass(a, b) followed by removeClass(a) on the same collection,
\* of the two classes exactly b is present on every member, whatever classes
\* the member started with; its other classes are as they were.
C8_AddThenRemove ==
    chist.stage = "removed" =>
        \A n \in Range(coll) :
            /\ chist.y \in dom[n].classes
            /\ chist.x \notin dom[n].classes
            /\ dom[n].classes \ {chist.x, chist.y} = chist.before[n] \ {chist.x, chist.y}

\* two members, one of which started with class a and another class
C8_Witness ==
    /\ chist.stage = "removed"
    /\ call.op = "removeClass"
    /\ Cardinality(Range(coll)) >= 2
    /\ \E n \in Range(coll) :
          chist.x \in chist.before[n] /\ chist.before[n] \ {chist.x, chist.y} # {}

Flip(set, x) == IF x \in set THEN set \ {x} ELSE set \cup {x}

\* C9: toggleClass(name) flips name once per handle, by the state of that
\* handle's own element (an element held by an odd number of handles ends
\* flipped), and a second toggleClass(name) on the same collection returns
\* every class list to what it was before the first.
C9_ToggleFlipsAndRoundTrips ==
    /\ chist.stage = "toggled" =>
          \A n \in DocNodes :
              dom[n].classes = IF Count(coll, n) % 2 = 1
                               THEN Flip(chist.before[n], chist.x)
                               ELSE chist.before[n]
    /\ chist.stage = "toggledTwice" =>
          \A n \in DocNodes : dom[n].classes = chist.before[n]

\* toggled twice on two members that started in different states
C9_Witness ==
    /\ chist.stage = "toggledTwice"
    /\ \E n1, n2 \in Range(coll) :
          /\ Count(coll, n1) = 1 /\ Count(coll, n2) = 1
          /\ chist.x \in chist.before[n1]
          /\ chist.x \notin chist.before[n2]

Display(n) == GetPropertyValue(dom, n, "display")

C2_ShowNeverHiddenNoop ==
    [][call'.op = "show" =>
          \A n \in Range(coll) :
              ~HasAttribute(dom, n, TempDisplay) => dom'[n] = dom[n]]_vars

\* C2 as amended: show() on a member that carries no marker removes its
\* inline display value and changes nothing else of the element.
C2_ShowNeverHiddenClearsDisplay ==
    [][call'.op = "show" =>
          \A n \in Range(coll) :
              ~HasAttribute(dom, n, TempDisplay) =>
                  dom'[n] = [dom[n] EXCEPT !.style = MapDel(@, "display")]]_vars

\* show() has just run on a never-hidden element whose inline display was block
C2_Witness ==
    \E n \in Range(coll) :
        /\ call.op = "show"
        /\ hist[n].run = "bare"
        /\ hist[n].orig = "block"
        /\ Display(n) = ""

---------------------------------------------------------------------------
(* Calls with too few arguments *)

\* attr() with neither one nor two arguments: the else branch throws
AttrArgc(argc) ==
    /\ argc \notin {1, 2}
    /\ call' = Call("attr", argc, "", JsUndef, <<>>)
    /\ ret' = Thrown("Error")
    /\ chist' = NoSeq
    /\ log' = <<>> /\ UNCHANGED <<window, regs, ons, dom, coll, used, hist>>

\* css() with neither one nor two arguments: no branch is taken and the
\* function ends without a return statement
CssArgc(argc) ==
    /\ argc \notin {1, 2}
    /\ call' = Call("css", argc, "", JsUndef, <<>>)
    /\ ret' = JsUndef
    /\ chist' = NoSeq
    /\ log' = <<>> /\ UNCHANGED <<window, regs, ons, dom, coll, used, hist>>

\* on() with fewer than two arguments: the else branch throws
OnArgc(argc, eventName) ==
    /\ argc < 2
    /\ argc = 0 => eventName = ""
    /\ call' = Call("on", argc, eventName, JsUndef, <<>>)
    /\ ret' = Thrown("Error")
    /\ chist' = NoSeq
    /\ log' = <<>> /\ UNCHANGED <<window, regs, ons, dom, coll, used, hist>>

InitInv ==
    /\ InitCommon
    /\ dom = Document

InvSelectors == {"input", "button", "em"}
InvAttrArgs == {Str("a"), Str("")}

NextInv ==
    \/ \E q \in InvSelectors : Query(q)
    \/ \E k \in AttrKeys : \E v \in InvAttrArgs : AttrSet(k, v)
    \/ \E v \in ColorArgs : CssSet("color", v)
    \/ On(2, "click", "", "f")
    \/ AttrArgc(0)
    \/ CssArgc(0)
    \/ OnArgc(0, "")
    \/ OnArgc(1, "click")

SpecInv == InitInv /\ [][NextInv]_vars

\* C11: attr(), css() and on() called with no argument throw, and leave
\* every element and the collection as they were.
C11_NoArgsThrows ==
    [][(call'.op \in {"attr", "css", "on"} /\ call'.argc = 0)
       => (ret'.t = "throw" /\ dom' = dom /\ coll' = coll)]_vars

---------------------------------------------------------------------------
(* Loading the script again *)

\* the page loads the script: window.first keeps which load assigned
\* window.$H first (0: none so far)
Load ==
    /\ window.loads < MaxLoads
    /\ LET k == window.loads + 1
           r == load(window.H, k)
       IN /\ window' = [H |-> r.H, loads |-> k,
                        first |-> IF window.first = 0 /\ r.ret.t # "throw"
                                  THEN k ELSE window.first]
          /\ ret' = r.ret
    /\ call' = Call("load", 0, "", JsUndef, <<>>)
    /\ chist' = NoSeq
    /\ log' = <<>>
    /\ UNCHANGED <<dom, coll, used, hist, regs, ons>>

\* what the page may have under window.$H before the script is loaded:
\* nothing, a falsy value, or a function of some other script
PageValues == {JsUndef, Str(""), Fn("other")}

InitLoad ==
    /\ coll = <<>>
    /\ call = Call("open", 0, "", JsUndef, <<>>)
    /\ ret = JsUndef
    /\ used = 0
    /\ hist = [n \in Nodes |-> Idle]
    /\ chist = NoSeq
    /\ log = <<>>
    /\ regs = NoRegs
    /\ ons = 0
    /\ dom = Document
    /\ \E h \in PageValues : window = [H |-> h, loads |-> 0, first |-> 0]

NextLoad ==
    \/ Load
    \/ \E q \in InvSelectors : Query(q)
    \/ \E k \in AttrKeys : \E v \in InvAttrArgs : AttrSet(k, v)
    \/ \E k \in AttrKeys : AttrGet(k)

SpecLoad == InitLoad /\ [][NextLoad]_vars

\* C12: a load of the script into a page where window.$H is set throws and
\* leaves window.$H as it is, and once a load has assigned window.$H no
\* later step replaces the function that load assigned.
C12_LoadGuard ==
    [][/\ (call'.op = "load" /\ Truthy(window.H))
            => (ret'.t = "throw" /\ window'.H = window.H)
       /\ window.first # 0 => window'.H = Fn(LoadName(window.first))]_vars

\* the script was loaded, and a later load has just been refused
C12_Witness ==
    /\ call.op = "load"
    /\ ret.t = "throw"
    /\ window.first # 0
    /\ window.loads > window.first
    /\ window.H = Fn(LoadName(window.first))

---------------------------------------------------------------------------
(* $H(value) *)

\* an empty slot of an array
Hole == "<empty>"

\* the length Array(v) takes a number for: an integer from 0 up, or none
ArrayLength(v) ==
    CASE v.s = "0" -> 0
      [] v.s = "1" -> 1
      [] v.s = "2" -> 2
      [] v.s = "3" -> 3
      [] OTHER -> -1

\* new ShorthandArray(baseElements) for an iterable holding elems:
\* super(...elems). With one number the Array constructor takes it for the
\* length and throws when it is none. A member is written as the id of the
\* node, or as String(value) for a value that is no node
NewShorthandArray(elems) ==
    IF Len(elems) = 1 /\ elems[1].t = "number"
    THEN (IF ArrayLength(elems[1]) >= 0
          THEN Coll([i \in 1..ArrayLength(elems[1]) |-> Hole])
          ELSE Thrown("RangeError"))
    ELSE Coll([i \in 1..Len(elems) |-> elems[i].s])

\* $H(x) with one argument that is neither a string nor a function:
\* new ShorthandArray(args). The caller goes on with the result when it
\* holds nodes only
Wrap(x) ==
    /\ IsShortHand(window.H)
    /\ x.t \notin {"string", "function"}
    /\ LET r == NewShorthandArray(<<x>>)
       IN /\ ret' = r
          /\ coll' = IF r.t = "ShorthandArray" /\ (x.t = "node" \/ r.c = <<>>)
                     THEN r.c ELSE coll
    /\ call' = Call("$H", 1, "", x, <<>>)
    /\ chist' = NoSeq
    /\ log' = <<>>
    /\ UNCHANGED <<dom, used, hist, regs, ons, window>>

InitWrap ==
    /\ InitCommon
    /\ dom = Document

WrapArgs ==
    { NodeRef("btn"), NodeRef("lbl"), JsNull, JsUndef, Bool("true"), Obj("{}"),
      Num("0"), Num("1"), Num("2"), Num("-1"), Num("1.5") }

NextWrap ==
    \/ \E q \in InvSelectors : Query(q)
    \/ \E x \in WrapArgs : Wrap(x)
    \/ First
    \/ \E k \in AttrKeys : \E v \in InvAttrArgs : AttrSet(k, v)

SpecWrap == InitWrap /\ [][NextWrap]_vars

\* C13: $H(x) with one argument x that is neither a string nor a function
\* returns a collection of length 1 whose only member is x.
C13_WrapsOneValue ==
    (/\ call.op = "$H"
     /\ call.argc = 1
     /\ call.key = ""
     /\ call.val.t \notin {"string", "function"})
    => ret = Coll(<<call.val.s>>)

---------------------------------------------------------------------------
(* closest() *)

\* the elements the host gives an iterator: a form iterates over its
\* controls, a select over its options
IsIterable(d, n) == d[n].tag \in {"form", "select"}
IterateOver(d, n) ==
    LET listed(x) == x # n /\ d[x].tag \in {"button", "input", "select", "option"}
    IN SelectSeq(Preorder(d, n), listed)

\* outArr.push(...elm.closest(query)): the host's closest returns an
\* element or null, and the spread asks the value for its iterator. null has
\* none, and of the elements only the iterable ones: st = [out, err]
closestElm(d, st, elm, query) ==
    IF st.err THEN st
    ELSE LET found == Closest(d, elm, query)
         IN IF found # <<>> /\ IsIterable(d, found[1])
            THEN [st EXCEPT !.out = @ \o IterateOver(d, found[1])]
            ELSE [st EXCEPT !.err = TRUE]

\* closest(query)
closest(d, c, query) ==
    LET each(st, elm) == closestElm(d, st, elm, query)
        st == ForEach(each, [out |-> <<>>, err |-> FALSE], c)
    IN IF st.err THEN Thrown("TypeError") ELSE Coll(st.out)

ClosestCall(query) ==
    /\ LET r == closest(dom, coll, query)
       IN /\ ret' = r
          /\ coll' = IF r.t = "throw" THEN coll ELSE r.c
    /\ call' = Call("closest", 1, query, JsUndef, <<>>)
    /\ chist' = NoSeq
    /\ log' = <<>>
    /\ UNCHANGED <<dom, used, hist, regs, ons, window>>

InitTrav ==
    /\ InitCommon
    /\ dom = Document

TravSelectors == {"span", "input", "em"}
ClosestSelectors == {"button", "body", "em"}

NextTrav ==
    \/ \E q \in TravSelectors : Query(q)
    \/ Siblings
    \/ First
    \/ \E q \in ClosestSelectors : ClosestCall(q)
    \/ \E k \in AttrKeys : \E v \in InvAttrArgs : AttrSet(k, v)

SpecTrav == InitTrav /\ [][NextTrav]_vars

\* per handle of c in order, its nearest ancestor-or-self matching query,
\* and nothing for a handle without one
RECURSIVE NearestAll(_, _, _)
NearestAll(d, c, query) ==
    IF c = <<>> THEN <<>>
    ELSE Closest(d, Head(c), query) \o NearestAll(d, Tail(c), query)

\* C14: closest(selector) throws nothing and returns a new collection that
\* holds, per handle in order, the nearest ancestor-or-self of the handle
\* that matches the selector, and nothing for a handle without a match.
C14_ClosestPerHandle ==
    [][call'.op = "closest"
       => ret' = Coll(NearestAll(dom, coll, call'.key))]_vars

====
